---- MODULE Spec2Model ----
(***************************************************************************)
(* mizuhiki-ta: candle aggregation (core/candle.rs), Column recurrences    *)
(* (core/column.rs), Series (core/series.rs), the RSI / NATR indicators    *)
(* and their configurations (indicators/*.rs).                             *)
(*                                                                         *)
(* Numeric values are modelled as the fixed-point Decimal of               *)
(* examples/benchmark.rs: an integer raw value counting 1/Scale units,     *)
(* with the truncating multiplication and division of that type.           *)
(***************************************************************************)
EXTENDS Integers, Sequences, FiniteSets, TLC

VARIABLES timeframe, opens, highs, lows, closes, volumes, timestamps,
          log, arg, ret

series == <<opens, highs, lows, closes, volumes, timestamps>>
vars == <<timeframe, opens, highs, lows, closes, volumes, timestamps,
          log, arg, ret>>

(***************************************************************************)
(* Bounds of the model.                                                    *)
(***************************************************************************)
MaxOps == 3
MaxTimeframe == 2
MaxTs == 2
MaxPrice == 2
Scale == 3
MaxLen == 4
MaxRaw == 2
MaxBars == 2
MaxSeriesLen == 2

Prices == 0..MaxPrice
Stamps == 0..MaxTs
Timeframes == 1..MaxTimeframe

\* the ticks fed to the series: <<price, volume>>, the volume varying with
\* the price
Ticks == {<<p, p + 1>> : p \in Prices}

(***************************************************************************)
(* Numeric capability (core/traits.rs) over the fixed-point Decimal.       *)
(***************************************************************************)
abs(x) == IF x < 0 THEN -x ELSE x

max(a, b) == IF b > a THEN b ELSE a

\* i64 division truncates toward zero
trunc_div(a, b) ==
    IF (a >= 0) = (b > 0) THEN abs(a) \div abs(b) ELSE -(abs(a) \div abs(b))

zero == 0
one == Scale
hundred == 100 * Scale
fifty == 50 * Scale

mul(a, b) == trunc_div(a * b, Scale)

div(a, b) == trunc_div(a * Scale, b)

(***************************************************************************)
(* Results of calls.                                                       *)
(***************************************************************************)
NoArg == [kind |-> "none"]
NoRet == [op |-> "none"]
Ok(name) == [op |-> name, res |-> "Ok"]
InvalidTimestamp(name, ts) == [op |-> name, res |-> "InvalidTimestamp", ts |-> ts]

\* a call that does not return: the panic unwinds with this message
Panic(msg) == [res |-> "panic", msg |-> msg]

Tick(price, vol, ts, acc) ==
    [kind |-> "tick", price |-> price, vol |-> vol, ts |-> ts, accepted |-> acc]

Last(s) == s[Len(s)]

(***************************************************************************)
(* CandleSeries (core/candle.rs).                                          *)
(***************************************************************************)
CandleSeries_new(tf) ==
    /\ timeframe = tf
    /\ opens = <<>>
    /\ highs = <<>>
    /\ lows = <<>>
    /\ closes = <<>>
    /\ volumes = <<>>
    /\ timestamps = <<>>

len == Len(timestamps)

is_empty == timestamps = <<>>

bucket_start_floor(ts, tf) == ts

bucket_start(ts, tf) == ts - (ts % tf)

push_new_candle_no_timestamp(price, vol, start_ts) ==
    /\ opens' = Append(opens, price)
    /\ highs' = Append(highs, price)
    /\ lows' = Append(lows, price)
    /\ closes' = Append(closes, price)
    /\ volumes' = Append(volumes, vol)
    /\ timestamps' = timestamps

push_new_candle_replaces_last(price, vol, start_ts) ==
    LET put(col, v) == IF col = <<>> THEN <<v>> ELSE [col EXCEPT ![Len(col)] = v] IN
    /\ opens' = put(opens, price)
    /\ highs' = put(highs, price)
    /\ lows' = put(lows, price)
    /\ closes' = put(closes, price)
    /\ volumes' = put(volumes, vol)
    /\ timestamps' = put(timestamps, start_ts)

push_new_candle(price, vol, start_ts) ==
    /\ opens' = Append(opens, price)
    /\ highs' = Append(highs, price)
    /\ lows' = Append(lows, price)
    /\ closes' = Append(closes, price)
    /\ volumes' = Append(volumes, vol)
    /\ timestamps' = Append(timestamps, start_ts)

update_last_candle_high_unraised(price, vol) ==
    LET i == len IN
    /\ highs' = highs
    /\ lows' = IF price < lows[i] THEN [lows EXCEPT ![i] = price] ELSE lows
    /\ closes' = [closes EXCEPT ![i] = price]
    /\ volumes' = [volumes EXCEPT ![i] = volumes[i] + vol]
    /\ UNCHANGED <<opens, timestamps>>

update_last_candle_volume_replaced(price, vol) ==
    LET i == len IN
    /\ highs' = IF price > highs[i] THEN [highs EXCEPT ![i] = price] ELSE highs
    /\ lows' = IF price < lows[i] THEN [lows EXCEPT ![i] = price] ELSE lows
    /\ closes' = [closes EXCEPT ![i] = price]
    /\ volumes' = [volumes EXCEPT ![i] = vol]
    /\ UNCHANGED <<opens, timestamps>>

update_last_candle_low_overwritten(price, vol) ==
    LET i == len IN
    /\ highs' = IF price > highs[i] THEN [highs EXCEPT ![i] = price] ELSE highs
    /\ lows' = [lows EXCEPT ![i] = price]
    /\ closes' = [closes EXCEPT ![i] = price]
    /\ volumes' = [volumes EXCEPT ![i] = volumes[i] + vol]
    /\ UNCHANGED <<opens, timestamps>>

update_last_candle_keep_close(price, vol) ==
    LET i == len IN
    /\ highs' = IF price > highs[i] THEN [highs EXCEPT ![i] = price] ELSE highs
    /\ lows' = IF price < lows[i] THEN [lows EXCEPT ![i] = price] ELSE lows
    /\ closes' = closes
    /\ volumes' = [volumes EXCEPT ![i] = volumes[i] + vol]
    /\ UNCHANGED <<opens, timestamps>>

update_last_candle(price, vol) ==
    LET i == len IN
    /\ highs' = IF price > highs[i] THEN [highs EXCEPT ![i] = price] ELSE highs
    /\ lows' = IF price < lows[i] THEN [lows EXCEPT ![i] = price] ELSE lows
    /\ closes' = [closes EXCEPT ![i] = price]
    /\ volumes' = [volumes EXCEPT ![i] = volumes[i] + vol]
    /\ UNCHANGED <<opens, timestamps>>

push_error_carries_tick_ts(price, vol, ts) ==
    LET next_start == bucket_start(ts, timeframe) IN
    /\ Len(log) < MaxOps
    /\ IF is_empty
       THEN /\ push_new_candle(price, vol, next_start)
            /\ ret' = Ok("push")
            /\ log' = Append(log, Tick(price, vol, ts, TRUE))
       ELSE IF next_start > Last(timestamps)
       THEN /\ push_new_candle(price, vol, next_start)
            /\ ret' = Ok("push")
            /\ log' = Append(log, Tick(price, vol, ts, TRUE))
       ELSE IF next_start = Last(timestamps)
       THEN /\ update_last_candle(price, vol)
            /\ ret' = Ok("push")
            /\ log' = Append(log, Tick(price, vol, ts, TRUE))
       ELSE /\ UNCHANGED series
            /\ ret' = InvalidTimestamp("push", ts)
            /\ log' = Append(log, Tick(price, vol, ts, FALSE))
    /\ UNCHANGED <<timeframe, arg>>

push_late_updates(price, vol, ts) ==
    LET next_start == bucket_start(ts, timeframe) IN
    /\ Len(log) < MaxOps
    /\ IF is_empty
       THEN /\ push_new_candle(price, vol, next_start)
            /\ ret' = Ok("push")
            /\ log' = Append(log, Tick(price, vol, ts, TRUE))
       ELSE IF next_start > Last(timestamps)
       THEN /\ push_new_candle(price, vol, next_start)
            /\ ret' = Ok("push")
            /\ log' = Append(log, Tick(price, vol, ts, TRUE))
       ELSE /\ update_last_candle(price, vol)
            /\ ret' = IF next_start = Last(timestamps)
                      THEN Ok("push")
                      ELSE InvalidTimestamp("push", next_start)
            /\ log' = Append(log, Tick(price, vol, ts, next_start = Last(timestamps)))
    /\ UNCHANGED <<timeframe, arg>>

push(price, vol, ts) ==
    LET next_start == bucket_start(ts, timeframe) IN
    /\ Len(log) < MaxOps
    /\ IF is_empty
       THEN /\ push_new_candle(price, vol, next_start)
            /\ ret' = Ok("push")
            /\ log' = Append(log, Tick(price, vol, ts, TRUE))
       ELSE IF next_start > Last(timestamps)
       THEN /\ push_new_candle(price, vol, next_start)
            /\ ret' = Ok("push")
            /\ log' = Append(log, Tick(price, vol, ts, TRUE))
       ELSE IF next_start = Last(timestamps)
       THEN /\ update_last_candle(price, vol)
            /\ ret' = Ok("push")
            /\ log' = Append(log, Tick(price, vol, ts, TRUE))
       ELSE /\ UNCHANGED series
            /\ ret' = InvalidTimestamp("push", next_start)
            /\ log' = Append(log, Tick(price, vol, ts, FALSE))
    /\ UNCHANGED <<timeframe, arg>>

push_unchecked_drops_same_bucket(price, vol, ts) ==
    LET next_start == bucket_start(ts, timeframe) IN
    /\ Len(log) < MaxOps
    /\ IF is_empty
       THEN /\ push_new_candle(price, vol, next_start)
            /\ log' = Append(log, Tick(price, vol, ts, TRUE))
       ELSE IF next_start > Last(timestamps)
       THEN /\ push_new_candle(price, vol, next_start)
            /\ log' = Append(log, Tick(price, vol, ts, TRUE))
       ELSE /\ UNCHANGED series
            /\ log' = Append(log, Tick(price, vol, ts, FALSE))
    /\ ret' = Ok("push_unchecked")
    /\ UNCHANGED <<timeframe, arg>>

push_unchecked_late_updates(price, vol, ts) ==
    LET next_start == bucket_start(ts, timeframe) IN
    /\ Len(log) < MaxOps
    /\ IF is_empty
       THEN /\ push_new_candle(price, vol, next_start)
            /\ log' = Append(log, Tick(price, vol, ts, TRUE))
       ELSE IF next_start > Last(timestamps)
       THEN /\ push_new_candle(price, vol, next_start)
            /\ log' = Append(log, Tick(price, vol, ts, TRUE))
       ELSE /\ update_last_candle(price, vol)
            /\ log' = Append(log, Tick(price, vol, ts, next_start = Last(timestamps)))
    /\ ret' = Ok("push_unchecked")
    /\ UNCHANGED <<timeframe, arg>>

push_unchecked(price, vol, ts) ==
    LET next_start == bucket_start(ts, timeframe) IN
    /\ Len(log) < MaxOps
    /\ IF is_empty
       THEN /\ push_new_candle(price, vol, next_start)
            /\ log' = Append(log, Tick(price, vol, ts, TRUE))
       ELSE IF next_start > Last(timestamps)
       THEN /\ push_new_candle(price, vol, next_start)
            /\ log' = Append(log, Tick(price, vol, ts, TRUE))
       ELSE IF next_start = Last(timestamps)
       THEN /\ update_last_candle(price, vol)
            /\ log' = Append(log, Tick(price, vol, ts, TRUE))
       ELSE /\ UNCHANGED series
            /\ log' = Append(log, Tick(price, vol, ts, FALSE))
    /\ ret' = Ok("push_unchecked")
    /\ UNCHANGED <<timeframe, arg>>

\* the history entry of a pre-built candle handed to push_candle_unchecked
Bar(candle, ts) ==
    [kind |-> "candle", price |-> candle.close, vol |-> candle.volume,
     ts |-> ts, accepted |-> TRUE, candle |-> candle]

push_candle_unchecked_ordered(candle, ts) ==
    /\ Len(log) < MaxOps
    /\ IF is_empty \/ ts > Last(timestamps)
       THEN /\ opens' = Append(opens, candle.open)
            /\ highs' = Append(highs, candle.high)
            /\ lows' = Append(lows, candle.low)
            /\ closes' = Append(closes, candle.close)
            /\ volumes' = Append(volumes, candle.volume)
            /\ timestamps' = Append(timestamps, ts)
       ELSE UNCHANGED series
    /\ log' = Append(log, Bar(candle, ts))
    /\ ret' = Ok("push_candle_unchecked")
    /\ UNCHANGED <<timeframe, arg>>

push_candle_unchecked(candle, ts) ==
    /\ Len(log) < MaxOps
    /\ opens' = Append(opens, candle.open)
    /\ highs' = Append(highs, candle.high)
    /\ lows' = Append(lows, candle.low)
    /\ closes' = Append(closes, candle.close)
    /\ volumes' = Append(volumes, candle.volume)
    /\ timestamps' = Append(timestamps, ts)
    /\ log' = Append(log, Bar(candle, ts))
    /\ ret' = Ok("push_candle_unchecked")
    /\ UNCHANGED <<timeframe, arg>>

None == <<>>
Some(m) == <<m>>

Candle(o, h, l, c, v) == [open |-> o, high |-> h, low |-> l, close |-> c, volume |-> v]

\* CandleSeries::get for the 0-based position index
get(index) ==
    IF index >= len THEN None
    ELSE Some(Candle(opens[index + 1], highs[index + 1], lows[index + 1],
                     closes[index + 1], volumes[index + 1]))

\* usize::saturating_sub
saturating_sub(a, b) == IF a >= b THEN a - b ELSE 0

\* CandleRef::true_range of candle i against candle j (positions from 1)
CandleRef_true_range(i, j) ==
    LET hl == highs[i] - lows[i]
        hc == abs(highs[i] - closes[j])
        lc == abs(lows[i] - closes[j])
    IN  max(max(hl, hc), lc)

\* the loop body of true_range for the 0-based candle position i
true_range_at_window_first(i, start) ==
    IF i = start THEN highs[i + 1] - lows[i + 1] ELSE CandleRef_true_range(i + 1, i)

true_range_at(i, start) ==
    IF i = 0 THEN highs[i + 1] - lows[i + 1] ELSE CandleRef_true_range(i + 1, i)

true_range_takes_first(max_history) ==
    IF is_empty THEN <<>>
    ELSE LET start == IF max_history = None THEN 0
                      ELSE saturating_sub(len, max_history[1])
         IN  [k \in 1..(len - start) |-> true_range_at(k - 1, 0)]

true_range(max_history) ==
    IF is_empty THEN <<>>
    ELSE LET start == IF max_history = None THEN 0
                      ELSE saturating_sub(len, max_history[1])
         IN  [k \in 1..(len - start) |-> true_range_at(start + k - 1, start)]

\* pre-built bars fed to the unvalidated path: a regular bar and a bar whose
\* high lies below its low
SampleCandles ==
    { Candle(1, MaxPrice, 0, 1, 1), Candle(1, 0, MaxPrice, 1, 1) }

(***************************************************************************)
(* Column (core/column.rs) and Series (core/series.rs).                    *)
(***************************************************************************)
default == 0

diff_first_is_value(data) ==
    [i \in 1..Len(data) |-> IF i = 1 THEN data[1] ELSE data[i] - data[i - 1]]

diff_reversed(data) ==
    IF Len(data) <= 1 THEN [i \in 1..Len(data) |-> default]
    ELSE [i \in 1..Len(data) |-> IF i = 1 THEN default ELSE data[i - 1] - data[i]]

diff(data) ==
    IF Len(data) <= 1 THEN [i \in 1..Len(data) |-> default]
    ELSE [i \in 1..Len(data) |-> IF i = 1 THEN default ELSE data[i] - data[i - 1]]

ewm_step_from_raw(alpha, one_minus_alpha, current, ema, previous) ==
    mul(alpha, current) + mul(one_minus_alpha, previous)

\* ema = alpha * current + one_minus_alpha * ema; previous is data[i - 1]
ewm_step(alpha, one_minus_alpha, current, ema, previous) ==
    mul(alpha, current) + mul(one_minus_alpha, ema)

RECURSIVE ewm_loop(_, _, _, _)
ewm_loop(data, alpha, i, result) ==
    IF i > Len(data) THEN result
    ELSE ewm_loop(data, alpha, i + 1,
                  Append(result, ewm_step(alpha, one - alpha, data[i],
                                          Last(result), data[i - 1])))

ewm_mean(data, alpha) ==
    IF data = <<>> THEN <<>> ELSE ewm_loop(data, alpha, 2, <<data[1]>>)

Series(column, index) == [column |-> column, index |-> index]

Series_from_vec(data) == Series(data, [i \in 1..Len(data) |-> i - 1])

Series_diff(s) == Series(diff(s.column), s.index)

Series_ewm_mean(s, alpha) == Series(ewm_mean(s.column, alpha), s.index)

\* length of iter().zip()
zip_len(a, b) == IF Len(a) <= Len(b) THEN Len(a) ELSE Len(b)

\* Column::default, Column::push and Column::from_vec_with_capacity, which
\* Series calls: an empty column, an append, and the data kept as given
\* (the capacity is auxiliary metadata)
Column_default == <<>>

Column_push(data, value) == Append(data, value)

Column_from_vec_with_capacity(data, capacity) == data

\* the closures handed to map / apply and to filter
call(f, x) ==
    CASE f = "double" -> x + x
      [] f = "gain" -> IF x > zero THEN x ELSE zero
      [] f = "loss" -> IF x < zero THEN zero - x ELSE zero

test(f, x) ==
    CASE f = "positive" -> x > zero
      [] f = "negative" -> x < zero

Column_apply(data, f) == [i \in 1..Len(data) |-> call(f, data[i])]

Column_map(data, f) == [i \in 1..Len(data) |-> call(f, data[i])]

RECURSIVE filter_loop_counts(_, _, _, _, _)
filter_loop_counts(data, f, i, filtered_data, filtered_indices) ==
    IF i > Len(data) THEN <<filtered_data, filtered_indices>>
    ELSE IF test(f, data[i])
    THEN filter_loop_counts(data, f, i + 1, Append(filtered_data, data[i]),
                            Append(filtered_indices, Len(filtered_data)))
    ELSE filter_loop_counts(data, f, i + 1, filtered_data, filtered_indices)

\* <<filtered data, 0-based positions of the survivors>>
RECURSIVE filter_loop(_, _, _, _, _)
filter_loop(data, f, i, filtered_data, filtered_indices) ==
    IF i > Len(data) THEN <<filtered_data, filtered_indices>>
    ELSE IF test(f, data[i])
    THEN filter_loop(data, f, i + 1, Append(filtered_data, data[i]),
                     Append(filtered_indices, i - 1))
    ELSE filter_loop(data, f, i + 1, filtered_data, filtered_indices)

Column_filter(data, f) == filter_loop(data, f, 1, <<>>, <<>>)

Series_new == Series(Column_default, <<>>)

Series_from_data(data, index, capacity) ==
    IF Len(data) # Len(index)
    THEN Panic("Data and index length must match")
    ELSE [res |-> "Ok",
          series |-> Series(Column_from_vec_with_capacity(data, capacity), index)]

Series_push(s, value, index) ==
    Series(Column_push(s.column, value), Append(s.index, index))

RECURSIVE Series_extend(_, _)
Series_extend(s, values) ==
    IF values = <<>> THEN s
    ELSE Series_extend(Series_push(s, values[1][1], values[1][2]), Tail(values))

Series_map(s, f) == Series(Column_map(s.column, f), s.index)

Series_apply_mut(s, f) == Series(Column_apply(s.column, f), s.index)

Series_filter_keeps_index(s, f) == Series(Column_filter(s.column, f)[1], s.index)

Series_filter(s, f) ==
    LET filtered_column == Column_filter(s.column, f)[1]
        filtered_pos == Column_filter(s.column, f)[2]
    IN  Series(filtered_column,
               [k \in 1..Len(filtered_pos) |-> s.index[filtered_pos[k] + 1]])

(***************************************************************************)
(* RSI (indicators/rsi.rs).                                                *)
(***************************************************************************)
RsiConfig(period, alpha) == [period |-> period, alpha |-> alpha]

gain_of_unclamped(change) == change

gain_of(change) == IF change > zero THEN change ELSE zero

loss_of_signed(change) == IF change < zero THEN change ELSE zero

loss_of(change) == IF change < zero THEN zero - change ELSE zero

\* changes.map(..): the index is carried over
gains_of(changes) ==
    Series([i \in 1..Len(changes.column) |-> gain_of(changes.column[i])], changes.index)

losses_of(changes) ==
    Series([i \in 1..Len(changes.column) |-> loss_of(changes.column[i])], changes.index)

rsi_value_no_neutral(gain, loss) ==
    IF gain = zero /\ loss = zero THEN zero
    ELSE mul(hundred, div(gain, gain + loss))

rsi_value(gain, loss) ==
    IF gain = zero /\ loss = zero THEN fifty
    ELSE mul(hundred, div(gain, gain + loss))

calculate_rsi_from_averages_renumbered(avg_gain, avg_loss) ==
    Series_from_vec([i \in 1..zip_len(avg_gain.column, avg_loss.column) |->
                        rsi_value(avg_gain.column[i], avg_loss.column[i])])

calculate_rsi_from_averages(avg_gain, avg_loss) ==
    Series([i \in 1..zip_len(avg_gain.column, avg_loss.column) |->
               rsi_value(avg_gain.column[i], avg_loss.column[i])],
           avg_gain.index)

rsi_rejects_short_input(prices, config) ==
    IF Len(prices.column) < config.period + 1 THEN [res |-> "NotEnoughData"]
    ELSE LET changes == Series_diff(prices)
             avg_gain == Series_ewm_mean(gains_of(changes), config.alpha)
             avg_loss == Series_ewm_mean(losses_of(changes), config.alpha)
         IN  [res |-> "Ok", rsi |-> calculate_rsi_from_averages(avg_gain, avg_loss),
              avg_gain |-> avg_gain, avg_loss |-> avg_loss]

\* the else branch divides by gain + loss; the integer division of the
\* fixed-point Decimal panics on a zero divisor
rsi_divides_by_zero(gain, loss) ==
    ~(gain = zero /\ loss = zero) /\ gain + loss = zero

rsi(prices, config) ==
    LET changes == Series_diff(prices)
        gains == gains_of(changes)
        losses == losses_of(changes)
        avg_gain == Series_ewm_mean(gains, config.alpha)
        avg_loss == Series_ewm_mean(losses, config.alpha)
    IN  IF \E i \in 1..zip_len(avg_gain.column, avg_loss.column) :
              rsi_divides_by_zero(avg_gain.column[i], avg_loss.column[i])
        THEN Panic("attempt to divide by zero")
        ELSE [res |-> "Ok", rsi |-> calculate_rsi_from_averages(avg_gain, avg_loss),
              avg_gain |-> avg_gain, avg_loss |-> avg_loss]

(***************************************************************************)
(* NATR (indicators/natr.rs).                                              *)
(***************************************************************************)
NatrConfig(period, alpha) == [period |-> period, alpha |-> alpha]

calculate_true_range_same_bar_close(high, low, close) ==
    Series([i \in 1..Len(high.column) |->
               LET current_high == high.column[i]
                   current_low == low.column[i]
               IN  IF i = 1 THEN current_high - current_low
                   ELSE LET prev_close == close.column[i]
                            hl == current_high - current_low
                            hc == IF current_high > prev_close
                                  THEN current_high - prev_close
                                  ELSE prev_close - current_high
                            lc == IF current_low > prev_close
                                  THEN current_low - prev_close
                                  ELSE prev_close - current_low
                            max_hc_lc == IF hc > lc THEN hc ELSE lc
                        IN  IF hl > max_hc_lc THEN hl ELSE max_hc_lc],
           high.index)

calculate_true_range(high, low, close) ==
    Series([i \in 1..Len(high.column) |->
               LET current_high == high.column[i]
                   current_low == low.column[i]
               IN  IF i = 1 THEN current_high - current_low
                   ELSE LET prev_close == close.column[i - 1]
                            hl == current_high - current_low
                            hc == IF current_high > prev_close
                                  THEN current_high - prev_close
                                  ELSE prev_close - current_high
                            lc == IF current_low > prev_close
                                  THEN current_low - prev_close
                                  ELSE prev_close - current_low
                            max_hc_lc == IF hc > lc THEN hc ELSE lc
                        IN  IF hl > max_hc_lc THEN hl ELSE max_hc_lc],
           high.index)

natr_value_product_first(atr_val, close_val) ==
    IF close_val # zero THEN div(mul(hundred, atr_val), close_val) ELSE zero

natr_value(atr_val, close_val) ==
    IF close_val # zero THEN mul(div(atr_val, close_val), hundred) ELSE zero

calculate_natr_from_atr_after_warmup(atr, close) ==
    Series([i \in 1..(zip_len(atr.column, close.column) - 1) |->
               natr_value(atr.column[i + 1], close.column[i + 1])],
           [i \in 1..(Len(atr.index) - 1) |-> atr.index[i + 1]])

calculate_natr_from_atr(atr, close) ==
    Series([i \in 1..zip_len(atr.column, close.column) |->
               natr_value(atr.column[i], close.column[i])],
           atr.index)

natr(high, low, close, config) ==
    LET tr == calculate_true_range(high, low, close)
        atr == Series_ewm_mean(tr, config.alpha)
    IN  [res |-> "Ok", natr |-> calculate_natr_from_atr(atr, close),
         true_range |-> tr, atr |-> atr]

(***************************************************************************)
(* Config (indicators/config.rs).  The alpha of the f32 / f64 convenience  *)
(* constructors is a quotient of two floats; it is kept as the exact       *)
(* fraction num / den, which the rounding of the division cannot move      *)
(* across 0 or 1.                                                          *)
(***************************************************************************)
Ratio(n, d) == [num |-> n, den |-> d]

Config(alpha, period, max_history) ==
    [alpha |-> alpha, period |-> period, max_history |-> max_history]

Config_new_unchecked(alpha, period, max_history) ==
    [res |-> "Ok", config |-> Config(alpha, period, max_history)]

Config_new(alpha, period, max_history) ==
    IF max_history < period
    THEN Panic("max_history must be greater than or equal to period")
    ELSE [res |-> "Ok", config |-> Config(alpha, period, max_history)]

Config_new_f64_period_only(period, max_history) ==
    IF max_history < period
    THEN Panic("max_history must be greater than or equal to period")
    ELSE [res |-> "Ok", config |-> Config(Ratio(2, period), period, max_history)]

Config_new_f64(period, max_history) ==
    IF max_history < period
    THEN Panic("max_history must be greater than or equal to period")
    ELSE [res |-> "Ok", config |-> Config(Ratio(2, period + 1), period, max_history)]

Config_new_f64_wilder(period, max_history) ==
    IF max_history < period
    THEN Panic("max_history must be greater than or equal to period")
    ELSE [res |-> "Ok", config |-> Config(Ratio(1, period), period, max_history)]

Config_new_f32(period, max_history) ==
    IF max_history < period
    THEN Panic("max_history must be greater than or equal to period")
    ELSE [res |-> "Ok", config |-> Config(Ratio(2, period + 1), period, max_history)]

Config_new_f32_wilder(period, max_history) ==
    IF max_history < period
    THEN Panic("max_history must be greater than or equal to period")
    ELSE [res |-> "Ok", config |-> Config(Ratio(1, period), period, max_history)]

\* RsiConfig::from_period and from_period_wilder, the same for f32 and f64
RsiConfig_from_period(period) == RsiConfig(period, Ratio(2, period + 1))

RsiConfig_from_period_wilder(period) == RsiConfig(period, Ratio(1, period))

Config_default ==
    LET period == 14
        max_history == period * 10
    IN  [res |-> "Ok", config |-> Config(Ratio(2, period + 1), period, max_history)]

(***************************************************************************)
(* The ingestion state machine.                                            *)
(***************************************************************************)
Init ==
    /\ \E tf \in Timeframes : CandleSeries_new(tf)
    /\ log = <<>>
    /\ arg = NoArg
    /\ ret = NoRet

Push == \E t \in Ticks, ts \in Stamps : push(t[1], t[2], ts)

PushUnchecked == \E t \in Ticks, ts \in Stamps : push_unchecked(t[1], t[2], ts)

PushCandleUnchecked ==
    \E c \in SampleCandles, ts \in {0, 1} : push_candle_unchecked(c, ts)

Next == Push \/ PushUnchecked \/ PushCandleUnchecked

Spec == Init /\ [][Next]_vars

(***************************************************************************)
(* True range over a series of pre-built bars.                             *)
(***************************************************************************)
MaxHistories == {None} \cup {Some(m) : m \in 0..(MaxBars + 1)}

InitTR ==
    /\ CandleSeries_new(1)
    /\ log = <<>>
    /\ arg = NoArg
    /\ ret = NoRet

PushBar ==
    /\ len < MaxBars
    /\ \E h \in Prices, l \in Prices, c \in Prices :
          push_candle_unchecked(Candle(c, h, l, c, 1), len)

TrueRange ==
    \E mh \in MaxHistories :
        /\ ret' = [op |-> "true_range", max_history |-> mh, out |-> true_range(mh)]
        /\ UNCHANGED <<timeframe, series, log, arg>>

\* natr's true range over the highs, lows and closes of the stored candles,
\* handed over as three parallel Series
NatrTrueRange ==
    /\ ret' = [op |-> "calculate_true_range",
               out |-> calculate_true_range(Series_from_vec(highs),
                                            Series_from_vec(lows),
                                            Series_from_vec(closes))]
    /\ UNCHANGED <<timeframe, series, log, arg>>

NextTR == PushBar \/ TrueRange

SpecTR == InitTR /\ [][NextTR]_vars

NextNatrTR == PushBar \/ NatrTrueRange

SpecNatrTR == InitTR /\ [][NextNatrTR]_vars

(***************************************************************************)
(* Column and indicator functions applied to drawn inputs.                 *)
(***************************************************************************)
\* input values: whole numbers of units, as fixed-point raw values
Raws == {v * Scale : v \in (0 - MaxRaw)..MaxRaw}
Levels == {v * Scale : v \in 0..MaxRaw}
Alphas == 1..(Scale - 1)
Periods == {1, MaxBars}

SeqsUpTo(S, n) == UNION {[1..k -> S] : k \in 0..n}

Configs == {NatrConfig(p, a) : p \in Periods, a \in Alphas}

\* <<high, low, close>> of one bar, the low not above the high
Bars == {<<h, l, c>> : h \in Levels, l \in Levels, c \in Levels} \cap
        {b \in Levels \X Levels \X Levels : b[2] <= b[1]}

InitColumn ==
    /\ CandleSeries_new(1)
    /\ log = <<>>
    /\ ret = NoRet
    /\ \E data \in SeqsUpTo(Raws, MaxLen), alpha \in Alphas :
          arg = [kind |-> "series", prices |-> Series_from_vec(data),
                 config |-> RsiConfig(MaxLen, alpha)]

InitOhlc ==
    /\ CandleSeries_new(1)
    /\ log = <<>>
    /\ ret = NoRet
    /\ \E bars \in SeqsUpTo(Bars, MaxBars), config \in Configs :
          arg = [kind |-> "ohlc",
                 high |-> Series_from_vec([i \in 1..Len(bars) |-> bars[i][1]]),
                 low |-> Series_from_vec([i \in 1..Len(bars) |-> bars[i][2]]),
                 close |-> Series_from_vec([i \in 1..Len(bars) |-> bars[i][3]]),
                 config |-> config]

Diff ==
    /\ arg.kind = "series"
    /\ ret' = [op |-> "diff", out |-> diff(arg.prices.column)]
    /\ UNCHANGED <<timeframe, series, log, arg>>

EwmMean ==
    /\ arg.kind = "series"
    /\ ret' = [op |-> "ewm_mean", out |-> ewm_mean(arg.prices.column, arg.config.alpha)]
    /\ UNCHANGED <<timeframe, series, log, arg>>

\* the price series handed to rsi: the drawn series, or the closing prices
RsiInput == IF arg.kind = "series" THEN arg.prices ELSE arg.close

Rsi ==
    /\ arg.kind \in {"series", "ohlc"}
    /\ ret' = [op |-> "rsi", out |-> rsi(RsiInput, arg.config)]
    /\ UNCHANGED <<timeframe, series, log, arg>>

Natr ==
    /\ arg.kind = "ohlc"
    /\ ret' = [op |-> "natr", out |-> natr(arg.high, arg.low, arg.close, arg.config)]
    /\ UNCHANGED <<timeframe, series, log, arg>>

\* natr over bars of one tick each: high = low = close = price
NatrOfTicks ==
    /\ arg.kind = "series"
    /\ ret' = [op |-> "natr",
               out |-> natr(arg.prices, arg.prices, arg.prices, arg.config)]
    /\ UNCHANGED <<timeframe, series, log, arg>>

\* the first steps of rsi: the changes and their split into gains and losses
RsiSplit ==
    /\ arg.kind = "series"
    /\ LET changes == Series_diff(arg.prices) IN
       ret' = [op |-> "rsi_split", changes |-> changes,
               gains |-> gains_of(changes), losses |-> losses_of(changes)]
    /\ UNCHANGED <<timeframe, series, log, arg>>

NextColumn == Diff \/ EwmMean \/ Rsi \/ NatrOfTicks \/ RsiSplit

SpecColumn == InitColumn /\ [][NextColumn]_vars

NextInd == Rsi \/ Natr

SpecInd == InitOhlc /\ [][NextInd]_vars

(***************************************************************************)
(* Construction of configurations, and the indicators run with them.       *)
(***************************************************************************)
\* the alphas a caller may hand to a constructor: raw fixed-point values
\* from below 0 to above 1
AnyAlphas == (0 - 1)..(Scale + 1)

ConfigPeriods == 0..(MaxBars + 1)

InitConfig ==
    /\ CandleSeries_new(1)
    /\ log = <<>>
    /\ arg = NoArg
    /\ ret = NoRet

\* bars <<high, low, close>> over a drawn series of closing prices
InitAlpha ==
    /\ CandleSeries_new(1)
    /\ log = <<>>
    /\ ret = NoRet
    /\ \E data \in SeqsUpTo(Levels, MaxBars), config \in Configs :
          arg = [kind |-> "ohlc",
                 high |-> Series_from_vec([i \in 1..Len(data) |-> data[i] + one]),
                 low |-> Series_from_vec(data),
                 close |-> Series_from_vec(data),
                 config |-> config]

Constructed(name, alpha, period, max_history, out) ==
    [op |-> name, alpha |-> alpha, period |-> period,
     max_history |-> max_history, out |-> out]

ConfigNew ==
    \E alpha \in AnyAlphas, period \in ConfigPeriods, max_history \in ConfigPeriods :
        /\ ret' = Constructed("Config::new", alpha, period, max_history,
                              Config_new(alpha, period, max_history))
        /\ UNCHANGED <<timeframe, series, log, arg>>

ConfigNewF64 ==
    \E period \in ConfigPeriods, max_history \in ConfigPeriods :
        /\ ret' = Constructed("Config::new_f64", Ratio(2, period + 1), period,
                              max_history, Config_new_f64(period, max_history))
        /\ UNCHANGED <<timeframe, series, log, arg>>

ConfigNewF64Wilder ==
    \E period \in ConfigPeriods, max_history \in ConfigPeriods :
        /\ ret' = Constructed("Config::new_f64_wilder", Ratio(1, period), period,
                              max_history, Config_new_f64_wilder(period, max_history))
        /\ UNCHANGED <<timeframe, series, log, arg>>

ConfigNewF32 ==
    \E period \in ConfigPeriods, max_history \in ConfigPeriods :
        /\ ret' = Constructed("Config::new_f32", Ratio(2, period + 1), period,
                              max_history, Config_new_f32(period, max_history))
        /\ UNCHANGED <<timeframe, series, log, arg>>

ConfigNewF32Wilder ==
    \E period \in ConfigPeriods, max_history \in ConfigPeriods :
        /\ ret' = Constructed("Config::new_f32_wilder", Ratio(1, period), period,
                              max_history, Config_new_f32_wilder(period, max_history))
        /\ UNCHANGED <<timeframe, series, log, arg>>

ConfigDefault ==
    /\ ret' = [op |-> "Config::default", out |-> Config_default]
    /\ UNCHANGED <<timeframe, series, log, arg>>

RsiConfigNew ==
    \E period \in Periods, alpha \in AnyAlphas :
        /\ arg' = [arg EXCEPT !.config = RsiConfig(period, alpha)]
        /\ ret' = [op |-> "RsiConfig::new", alpha |-> alpha, period |-> period,
                   out |-> [res |-> "Ok", config |-> RsiConfig(period, alpha)]]
        /\ UNCHANGED <<timeframe, series, log>>

NatrConfigNew ==
    \E period \in Periods, alpha \in AnyAlphas :
        /\ arg' = [arg EXCEPT !.config = NatrConfig(period, alpha)]
        /\ ret' = [op |-> "NatrConfig::new", alpha |-> alpha, period |-> period,
                   out |-> [res |-> "Ok", config |-> NatrConfig(period, alpha)]]
        /\ UNCHANGED <<timeframe, series, log>>

RsiConfigFromPeriod ==
    \E period \in ConfigPeriods :
        /\ ret' = [op |-> "RsiConfig::from_period", period |-> period,
                   out |-> [res |-> "Ok", config |-> RsiConfig_from_period(period)]]
        /\ UNCHANGED <<timeframe, series, log, arg>>

RsiConfigFromPeriodWilder ==
    \E period \in ConfigPeriods :
        /\ ret' = [op |-> "RsiConfig::from_period_wilder", period |-> period,
                   out |-> [res |-> "Ok",
                            config |-> RsiConfig_from_period_wilder(period)]]
        /\ UNCHANGED <<timeframe, series, log, arg>>

NextConfig ==
    \/ ConfigNew \/ ConfigNewF64 \/ ConfigNewF64Wilder
    \/ ConfigNewF32 \/ ConfigNewF32Wilder \/ ConfigDefault
    \/ RsiConfigFromPeriod \/ RsiConfigFromPeriodWilder

SpecConfig == InitConfig /\ [][NextConfig]_vars

NextAlpha == RsiConfigNew \/ NatrConfigNew \/ Rsi \/ Natr

SpecAlpha == InitAlpha /\ [][NextAlpha]_vars

(***************************************************************************)
(* A Series built by a constructor and then worked on.                     *)
(***************************************************************************)
Labels == {0, 1}
Closures == {"double", "gain", "loss"}
Predicates == {"positive", "negative"}

\* the <<value, index>> batches handed to extend
Batches == SeqsUpTo({<<one, 0>>, <<zero - one, 1>>}, 2)

\* the series a caller holds, with the configuration it runs rsi with
Held(s, alpha) ==
    [kind |-> "series", prices |-> s, config |-> RsiConfig(MaxSeriesLen, alpha)]

\* the series stays within the lengths and values the model explores
InRange(s) ==
    /\ Len(s.column) <= MaxSeriesLen
    /\ \A i \in DOMAIN s.column : s.column[i] \in Raws

InitSeries ==
    /\ CandleSeries_new(1)
    /\ log = <<>>
    /\ arg = NoArg
    /\ ret = NoRet

SeriesNew ==
    /\ arg = NoArg /\ ret = NoRet
    /\ \E alpha \in Alphas : arg' = Held(Series_new, alpha)
    /\ ret' = [op |-> "Series::new", out |-> Series_new]
    /\ UNCHANGED <<timeframe, series, log>>

SeriesFromData ==
    /\ arg = NoArg /\ ret = NoRet
    /\ \E data \in SeqsUpTo(Raws, MaxSeriesLen),
          index \in SeqsUpTo(Labels, MaxSeriesLen), alpha \in Alphas :
          LET made == Series_from_data(data, index, None) IN
          /\ ret' = [op |-> "Series::from_data", data |-> data, index |-> index,
                     res |-> made.res]
          /\ arg' = IF made.res = "Ok" THEN Held(made.series, alpha) ELSE arg
    /\ UNCHANGED <<timeframe, series, log>>

SeriesFromVec ==
    /\ arg = NoArg /\ ret = NoRet
    /\ \E data \in SeqsUpTo(Raws, MaxSeriesLen), alpha \in Alphas :
          /\ arg' = Held(Series_from_vec(data), alpha)
          /\ ret' = [op |-> "Series::from_vec", out |-> Series_from_vec(data)]
    /\ UNCHANGED <<timeframe, series, log>>

SeriesPush ==
    /\ arg.kind = "series"
    /\ Len(arg.prices.column) < MaxSeriesLen
    /\ \E value \in Raws, index \in Labels :
          arg' = [arg EXCEPT !.prices = Series_push(arg.prices, value, index)]
    /\ ret' = [op |-> "Series::push"]
    /\ UNCHANGED <<timeframe, series, log>>

SeriesExtend ==
    /\ arg.kind = "series"
    /\ \E values \in Batches :
          /\ Len(arg.prices.column) + Len(values) <= MaxSeriesLen
          /\ arg' = [arg EXCEPT !.prices = Series_extend(arg.prices, values)]
    /\ ret' = [op |-> "Series::extend"]
    /\ UNCHANGED <<timeframe, series, log>>

SeriesApplyMut ==
    /\ arg.kind = "series"
    /\ \E f \in Closures :
          /\ InRange(Series_apply_mut(arg.prices, f))
          /\ arg' = [arg EXCEPT !.prices = Series_apply_mut(arg.prices, f)]
    /\ ret' = [op |-> "Series::apply_mut"]
    /\ UNCHANGED <<timeframe, series, log>>

SeriesMap ==
    /\ arg.kind = "series"
    /\ \E f \in Closures :
          ret' = [op |-> "Series::map", out |-> Series_map(arg.prices, f)]
    /\ UNCHANGED <<timeframe, series, log, arg>>

SeriesFilter ==
    /\ arg.kind = "series"
    /\ \E f \in Predicates :
          ret' = [op |-> "Series::filter", pred |-> f,
                  out |-> Series_filter(arg.prices, f)]
    /\ UNCHANGED <<timeframe, series, log, arg>>

\* Column::filter on the column of the held series
ColumnFilter ==
    /\ arg.kind = "series"
    /\ \E f \in Predicates :
          ret' = [op |-> "Column::filter", pred |-> f,
                  out |-> Column_filter(arg.prices.column, f)]
    /\ UNCHANGED <<timeframe, series, log, arg>>

SeriesDiff ==
    /\ arg.kind = "series"
    /\ ret' = [op |-> "Series::diff", out |-> Series_diff(arg.prices)]
    /\ UNCHANGED <<timeframe, series, log, arg>>

SeriesEwmMean ==
    /\ arg.kind = "series"
    /\ \E alpha \in Alphas :
          ret' = [op |-> "Series::ewm_mean", out |-> Series_ewm_mean(arg.prices, alpha)]
    /\ UNCHANGED <<timeframe, series, log, arg>>

SeriesReturning ==
    {"Series::new", "Series::from_vec", "Series::map", "Series::filter",
     "Series::diff", "Series::ewm_mean"}

\* the caller goes on with the Series an operation returned
SeriesRebind ==
    /\ arg.kind = "series"
    /\ ret.op \in SeriesReturning \ {"Series::new", "Series::from_vec"}
    /\ InRange(ret.out)
    /\ arg' = [arg EXCEPT !.prices = ret.out]
    /\ ret' = [op |-> "rebind"]
    /\ UNCHANGED <<timeframe, series, log>>

NextSeries ==
    \/ SeriesNew \/ SeriesFromData \/ SeriesFromVec
    \/ SeriesPush \/ SeriesExtend \/ SeriesApplyMut
    \/ SeriesMap \/ SeriesFilter \/ ColumnFilter \/ SeriesDiff \/ SeriesEwmMean
    \/ SeriesRebind \/ Rsi

SpecSeries == InitSeries /\ [][NextSeries]_vars

(***************************************************************************)
(* Helpers for the properties of the ingestion state machine.              *)
(***************************************************************************)
RECURSIVE SumVol(_)
SumVol(s) == IF s = <<>> THEN 0 ELSE s[1].vol + SumVol(Tail(s))

TickPrices == {log[i].price : i \in DOMAIN log}

OnlyTicks == \A i \in DOMAIN log : log[i].kind = "tick"

SameWindow ==
    \A i \in DOMAIN log :
        bucket_start(log[i].ts, timeframe) = bucket_start(log[1].ts, timeframe)

\* the step is a call of op with a tick that falls before the last stored bucket
LateTickStep(op) ==
    /\ ~is_empty
    /\ Len(log') = Len(log) + 1
    /\ ret'.op = op
    /\ Last(log').ts - (Last(log').ts % timeframe) < Last(timestamps)

\* C1: a strict push of a tick whose bucket start lies before the last stored
\* bucket start returns InvalidTimestamp and leaves every column and every
\* timestamp of the series as it was.
C1_StrictLatePushRejected ==
    [][LateTickStep("push") =>
         /\ ret'.res = "InvalidTimestamp"
         /\ UNCHANGED series]_vars

C1_Witness ==
    /\ ret.op = "push"
    /\ ret.res = "InvalidTimestamp"
    /\ len >= 1
    /\ Last(log).ts - (Last(log).ts % timeframe) < Last(timestamps)

\* C2: a lenient push_unchecked of a tick whose bucket start lies before the
\* last stored bucket start reports no error and changes no column and no
\* timestamp.
C2_LenientLatePushDiscarded ==
    [][LateTickStep("push_unchecked") =>
         /\ ret'.res = "Ok"
         /\ UNCHANGED series]_vars

C2_Witness ==
    /\ ret.op = "push_unchecked"
    /\ len >= 1
    /\ Last(log).ts - (Last(log).ts % timeframe) < Last(timestamps)

\* C3: ticks pushed onto an empty series that all fall in one timeframe window
\* give exactly one candle: open = first price, close = last price, high and
\* low = maximum and minimum of the prices, volume = sum of the volumes.
C3_SingleWindowAggregation ==
    (log # <<>> /\ OnlyTicks /\ SameWindow) =>
        /\ len = 1
        /\ opens[1] = log[1].price
        /\ closes[1] = Last(log).price
        /\ highs[1] \in TickPrices /\ \A p \in TickPrices : p <= highs[1]
        /\ lows[1] \in TickPrices /\ \A p \in TickPrices : p >= lows[1]
        /\ volumes[1] = SumVol(log)

C3_Witness ==
    /\ Len(log) >= 3
    /\ OnlyTicks
    /\ SameWindow
    /\ len = 1
    /\ highs[1] > closes[1]
    /\ lows[1] < opens[1]
    /\ closes[1] # opens[1]

\* C4: as long as only push and push_unchecked have been called, the stored
\* timestamps are strictly increasing and each is a multiple of timeframe.
C4_TimestampsIncreasingBucketStarts ==
    OnlyTicks =>
        /\ \A i \in 1..(len - 1) : timestamps[i] < timestamps[i + 1]
        /\ \A i \in 1..len : timestamps[i] % timeframe = 0

C4_Witness ==
    /\ OnlyTicks
    /\ timeframe >= 2
    /\ len >= 2
    /\ \E i \in DOMAIN log : ~log[i].accepted

\* the step is a call of push or push_unchecked with a tick
TickStep ==
    /\ Len(log') = Len(log) + 1
    /\ ret'.op \in {"push", "push_unchecked"}

\* the bucket start of the tick handed to the call that makes the step
TickStart == Last(log').ts - (Last(log').ts % timeframe)

\* every candle stored before the step is stored unchanged after it
StoredCandlesKept ==
    /\ len <= Len(timestamps')
    /\ \A i \in 1..len :
          /\ opens'[i] = opens[i]
          /\ highs'[i] = highs[i]
          /\ lows'[i] = lows[i]
          /\ closes'[i] = closes[i]
          /\ volumes'[i] = volumes[i]
          /\ timestamps'[i] = timestamps[i]

\* C14: push_candle_unchecked validates nothing: whatever the stored series,
\* the candle and the timestamp (also one not after the last stored timestamp,
\* or not a multiple of timeframe), it appends exactly one candle with the
\* given open, high, low, close, volume and timestamp and leaves every candle
\* stored before as it was.
C14_CandleAppendedUnvalidated ==
    [][ret'.op = "push_candle_unchecked" =>
          LET given == Last(log') IN
          /\ Len(timestamps') = len + 1
          /\ Last(opens') = given.candle.open
          /\ Last(highs') = given.candle.high
          /\ Last(lows') = given.candle.low
          /\ Last(closes') = given.candle.close
          /\ Last(volumes') = given.candle.volume
          /\ Last(timestamps') = given.ts
          /\ Len(opens') = len + 1 /\ Len(highs') = len + 1
          /\ Len(lows') = len + 1 /\ Len(closes') = len + 1
          /\ Len(volumes') = len + 1
          /\ StoredCandlesKept]_vars

C14_Witness ==
    /\ ret.op = "push_candle_unchecked"
    /\ len >= 2
    /\ Last(log).kind = "candle"
    /\ timestamps[len] <= timestamps[len - 1]
    /\ timestamps[len] % timeframe # 0
    /\ highs[len] < lows[len]

\* C19: a tick pushed (push or push_unchecked) onto an empty series, or onto
\* a series whose last stored bucket start is smaller than the tick's bucket
\* start, appends exactly one candle with open = high = low = close = price,
\* volume = vol and timestamp = ts - (ts mod timeframe); every candle stored
\* before, the former last one included, is left as it was.
C19_NewBucketAppendsCandle ==
    [][(TickStep /\ (is_empty \/ Last(timestamps) < TickStart)) =>
          LET tick == Last(log') IN
          /\ opens' = Append(opens, tick.price)
          /\ highs' = Append(highs, tick.price)
          /\ lows' = Append(lows, tick.price)
          /\ closes' = Append(closes, tick.price)
          /\ volumes' = Append(volumes, tick.vol)
          /\ timestamps' = Append(timestamps, tick.ts - (tick.ts % timeframe))
          /\ StoredCandlesKept]_vars

C19_Witness ==
    /\ ret.op \in {"push", "push_unchecked"}
    /\ OnlyTicks
    /\ timeframe >= 2
    /\ len = 2
    /\ Len(log) = 2
    /\ log[1].ts % timeframe # 0
    /\ timestamps[1] = log[1].ts - (log[1].ts % timeframe)
    /\ timestamps[2] = log[2].ts - (log[2].ts % timeframe)
    /\ timestamps[1] < timestamps[2]
    /\ opens[2] = log[2].price /\ volumes[2] = log[2].vol
    /\ closes[1] = log[1].price /\ closes[1] # closes[2]

\* C20: a tick pushed (push or push_unchecked) whose bucket start equals the
\* last stored bucket start leaves the number of candles, all timestamps, all
\* candles but the last and the last candle's open as they were; the last
\* candle gets high = max(old high, price), low = min(old low, price),
\* close = price and volume = old volume + vol.
C20_SameBucketUpdatesLast ==
    [][(TickStep /\ ~is_empty /\ Last(timestamps) = TickStart) =>
          LET tick == Last(log')
              n == len
          IN
          /\ timestamps' = timestamps
          /\ opens' = opens
          /\ Len(highs') = n /\ Len(lows') = n
          /\ Len(closes') = n /\ Len(volumes') = n
          /\ \A i \in 1..(n - 1) :
                /\ highs'[i] = highs[i]
                /\ lows'[i] = lows[i]
                /\ closes'[i] = closes[i]
                /\ volumes'[i] = volumes[i]
          /\ highs'[n] = IF highs[n] >= tick.price THEN highs[n] ELSE tick.price
          /\ lows'[n] = IF lows[n] <= tick.price THEN lows[n] ELSE tick.price
          /\ closes'[n] = tick.price
          /\ volumes'[n] = volumes[n] + tick.vol]_vars

C20_Witness ==
    /\ ret.op \in {"push", "push_unchecked"}
    /\ Len(log) >= 3
    /\ OnlyTicks
    /\ len = 2
    /\ log[Len(log)].accepted /\ log[Len(log) - 1].accepted
    /\ Last(log).ts - (Last(log).ts % timeframe)
          = log[Len(log) - 1].ts - (log[Len(log) - 1].ts % timeframe)
    /\ timestamps[2] = Last(log).ts - (Last(log).ts % timeframe)
    /\ lows[2] < opens[2]
    /\ closes[2] = lows[2]
    /\ highs[2] = opens[2]
    /\ volumes[2] = log[Len(log)].vol + log[Len(log) - 1].vol

RECURSIVE SumSeq(_)
SumSeq(s) == IF s = <<>> THEN 0 ELSE s[1] + SumSeq(Tail(s))

\* the ticks of the history have non-decreasing timestamps
NonDecreasing == \A i \in 1..(Len(log) - 1) : log[i].ts <= log[i + 1].ts

BucketStarts == {log[i].ts - (log[i].ts % timeframe) : i \in DOMAIN log}

\* C24: after any sequence of push, push_unchecked and push_candle_unchecked
\* the opens, highs, lows, closes and volumes columns and the timestamps all
\* have the length len(), and get(i) returns a candle exactly when i < len().
C24_ColumnsSameLength ==
    /\ Len(opens) = len /\ Len(highs) = len /\ Len(lows) = len
    /\ Len(closes) = len /\ Len(volumes) = len /\ Len(timestamps) = len
    /\ \A i \in 0..(MaxOps + 1) :
          /\ (get(i) # None) = (i < len)
          /\ i < len => get(i) = Some(Candle(opens[i + 1], highs[i + 1], lows[i + 1],
                                             closes[i + 1], volumes[i + 1]))

C24_Witness ==
    /\ len = 2
    /\ \E i, j, k \in DOMAIN log :
          /\ log[i].kind = "candle"
          /\ log[j].kind = "tick" /\ log[j].accepted
          /\ log[k].kind = "tick" /\ ~log[k].accepted
    /\ get(1) # None
    /\ get(2) = None

\* C25: after any sequence of push and push_unchecked calls on an empty
\* series every stored candle has low <= open <= high and
\* low <= close <= high.
C25_OpenCloseWithinLowHigh ==
    OnlyTicks =>
        \A i \in 1..len :
            /\ lows[i] <= opens[i] /\ opens[i] <= highs[i]
            /\ lows[i] <= closes[i] /\ closes[i] <= highs[i]

C25_Witness ==
    /\ OnlyTicks
    /\ \E i \in 1..len :
          /\ lows[i] < opens[i]
          /\ opens[i] < highs[i]
          /\ closes[i] = highs[i]

\* what a tick does to the series at bucket granularity: a new candle on an
\* empty series or in a later bucket, an update of the last candle in the
\* same bucket, nothing in an earlier bucket
BucketEffect(tick) ==
    LET start == tick.ts - (tick.ts % timeframe) IN
    IF is_empty \/ start > Last(timestamps)
    THEN /\ opens' = Append(opens, tick.price)
         /\ highs' = Append(highs, tick.price)
         /\ lows' = Append(lows, tick.price)
         /\ closes' = Append(closes, tick.price)
         /\ volumes' = Append(volumes, tick.vol)
         /\ timestamps' = Append(timestamps, start)
    ELSE IF start = Last(timestamps)
    THEN /\ opens' = opens
         /\ highs' = [highs EXCEPT ![len] = IF tick.price > @ THEN tick.price ELSE @]
         /\ lows' = [lows EXCEPT ![len] = IF tick.price < @ THEN tick.price ELSE @]
         /\ closes' = [closes EXCEPT ![len] = tick.price]
         /\ volumes' = [volumes EXCEPT ![len] = @ + tick.vol]
         /\ timestamps' = timestamps
    ELSE UNCHANGED series

\* the tick falls in a bucket before the last stored one
Late(tick) ==
    ~is_empty /\ tick.ts - (tick.ts % timeframe) < Last(timestamps)

\* C26: strict and lenient ingestion differ only in the reported outcome:
\* from every series state and for every tick, push and push_unchecked lead
\* to the same series state, and push returns an error exactly for the ticks
\* that push_unchecked discards.
C26_StrictAndLenientSameSeries ==
    [][TickStep =>
          LET tick == Last(log') IN
          /\ BucketEffect(tick)
          /\ tick.accepted = ~Late(tick)
          /\ ret'.op = "push" => (ret'.res # "Ok") = Late(tick)
          /\ ret'.op = "push_unchecked" => ret'.res = "Ok"]_vars

C26_Witness ==
    /\ ret.op = "push_unchecked"
    /\ OnlyTicks
    /\ Len(log) = 3
    /\ log[1].accepted /\ log[2].accepted /\ ~log[3].accepted
    /\ len = 2
    /\ closes[2] = log[2].price
    /\ log[3].price # log[2].price

\* C27: from an empty series, after any sequence of ticks with
\* non-decreasing timestamps every push succeeds, the number of stored
\* candles equals the number of distinct bucket starts among the ticks, and
\* the stored volumes add up to the sum of the tick volumes.
C27_VolumeAndBucketCount ==
    (OnlyTicks /\ NonDecreasing) =>
        /\ \A i \in DOMAIN log : log[i].accepted
        /\ ret.op = "push" => ret.res = "Ok"
        /\ len = Cardinality(BucketStarts)
        /\ SumSeq(volumes) = SumVol(log)

C27_Witness ==
    /\ ret.op = "push"
    /\ OnlyTicks /\ NonDecreasing
    /\ Len(log) = 3
    /\ timeframe >= 2
    /\ len = 2
    /\ log[1].ts < log[2].ts
    /\ volumes[1] = log[1].vol + log[2].vol
    /\ volumes[2] = log[3].vol

\* C28: ordering is enforced at bucket granularity only: a tick older than
\* an earlier accepted tick but in the last stored bucket is accepted by
\* push and overwrites the last close; push returns InvalidTimestamp if and
\* only if the tick's bucket start is strictly smaller than the last stored
\* bucket start, and the error carries that bucket start.
C28_OrderingAtBucketGranularity ==
    [][(TickStep /\ ret'.op = "push") =>
          /\ (ret'.res = "InvalidTimestamp") = (~is_empty /\ TickStart < Last(timestamps))
          /\ ret'.res \in {"Ok", "InvalidTimestamp"}
          /\ ret'.res = "InvalidTimestamp" => ret'.ts = TickStart
          /\ (~is_empty /\ TickStart = Last(timestamps)) =>
                /\ ret'.res = "Ok"
                /\ Len(closes') = len
                /\ Last(closes') = Last(log').price]_vars

C28_Witness ==
    /\ ret.op = "push"
    /\ ret.res = "Ok"
    /\ OnlyTicks
    /\ Len(log) = 2
    /\ log[1].accepted /\ log[2].accepted
    /\ log[2].ts < log[1].ts
    /\ len = 1
    /\ closes[1] = log[2].price
    /\ closes[1] # opens[1]

(***************************************************************************)
(* Properties of true_range.                                               *)
(***************************************************************************)
\* 1-based position of the first candle of the window chosen by max_history
WindowFirst(mh) == IF mh = None \/ mh[1] >= len THEN 1 ELSE len - mh[1] + 1

ThreeWayMax(i) ==
    LET hl == highs[i] - lows[i]
        hc == IF highs[i] >= closes[i - 1] THEN highs[i] - closes[i - 1]
              ELSE closes[i - 1] - highs[i]
        lc == IF lows[i] >= closes[i - 1] THEN lows[i] - closes[i - 1]
              ELSE closes[i - 1] - lows[i]
    IN  CHOOSE m \in {hl, hc, lc} : \A x \in {hl, hc, lc} : x <= m

\* C10 as stated: one value per candle of the window, the first candle of the
\* window valued high - low, every later one the three-way maximum.
C10_WindowFirstIsHighLow ==
    ret.op = "true_range" =>
        LET f == WindowFirst(ret.max_history) IN
        /\ Len(ret.out) = len - f + 1
        /\ \A k \in 1..Len(ret.out) :
              ret.out[k] = IF k = 1 THEN highs[f] - lows[f]
                           ELSE ThreeWayMax(f + k - 1)

\* C10 amended: one value per candle of the window; candle 0 of the whole
\* series, when the window contains it, is valued high - low; every other
\* candle of the window, the first of a window that starts later included, is
\* the maximum of high - low, |high - previous close| and |low - previous
\* close|; an empty series gives an empty result.
C10_TrueRangePerCandle ==
    ret.op = "true_range" =>
        LET f == WindowFirst(ret.max_history) IN
        /\ Len(ret.out) = len - f + 1
        /\ \A k \in 1..Len(ret.out) :
              ret.out[k] = IF f + k - 1 = 1 THEN highs[1] - lows[1]
                           ELSE ThreeWayMax(f + k - 1)
        /\ is_empty => ret.out = <<>>

C10_Witness ==
    /\ ret.op = "true_range"
    /\ len >= 2
    /\ ret.max_history = Some(1)
    /\ highs[len] >= lows[len]
    /\ ret.out[1] # highs[len] - lows[len]

(***************************************************************************)
(* Properties of the Column functions and of the indicators.               *)
(***************************************************************************)
Input == arg.prices.column

\* C5: every RSI value lies in [0, 100], and it is exactly 50 where avg_gain
\* and avg_loss are both zero.
C5_RsiRangeAndNeutral ==
    ret.op = "rsi" =>
        \A i \in DOMAIN ret.out.rsi.column :
            /\ ret.out.rsi.column[i] >= zero
            /\ ret.out.rsi.column[i] <= hundred
            /\ (ret.out.avg_gain.column[i] = zero /\ ret.out.avg_loss.column[i] = zero)
                  => ret.out.rsi.column[i] = 50 * one

C5_Witness ==
    /\ ret.op = "rsi"
    /\ arg.kind = "series"
    /\ \E i \in DOMAIN ret.out.rsi.column :
          /\ i >= 2
          /\ ret.out.avg_gain.column[i] = zero
          /\ ret.out.avg_loss.column[i] = zero
    /\ \E j \in DOMAIN ret.out.rsi.column :
          /\ ret.out.avg_gain.column[j] > zero
          /\ ret.out.avg_loss.column[j] > zero
          /\ ret.out.rsi.column[j] > zero
          /\ ret.out.rsi.column[j] < hundred

\* C6 as stated: natr[i] is 0 where close[i] is 0 and otherwise 100 * atr[i]
\* divided by close[i], the product taken before the division.
C6_NatrProductBeforeDivision ==
    ret.op = "natr" =>
        \A i \in DOMAIN ret.out.natr.column :
            ret.out.natr.column[i] =
                IF arg.close.column[i] = zero THEN zero
                ELSE div(mul(hundred, ret.out.atr.column[i]), arg.close.column[i])

\* C6 amended: natr[i] is 0 where close[i] is 0 and otherwise the quotient
\* atr[i] / close[i] multiplied by 100, the division taken first.
C6_NatrDivisionBeforeProduct ==
    ret.op = "natr" =>
        /\ Len(ret.out.natr.column) = Len(arg.close.column)
        /\ \A i \in DOMAIN ret.out.natr.column :
              ret.out.natr.column[i] =
                  IF arg.close.column[i] = zero THEN zero
                  ELSE mul(trunc_div(ret.out.atr.column[i] * Scale, arg.close.column[i]),
                           100 * one)

C6_Witness ==
    /\ ret.op = "natr"
    /\ \E i \in DOMAIN ret.out.natr.column :
          /\ arg.close.column[i] = zero
          /\ ret.out.atr.column[i] > zero
    /\ \E j \in DOMAIN ret.out.natr.column :
          /\ arg.close.column[j] # zero
          /\ ret.out.natr.column[j] > zero
          /\ (ret.out.atr.column[j] * Scale) % arg.close.column[j] # 0

\* number of points handed to the indicator
Points == IF ret.op = "rsi" THEN Len(arg.close.column) ELSE Len(arg.high.column)

C8_EwmMeanRecurrence ==
    ret.op = "ewm_mean" =>
        /\ Len(ret.out) = Len(Input)
        /\ Input # <<>> => ret.out[1] = Input[1]
        /\ \A i \in 2..Len(ret.out) :
              ret.out[i] = mul(arg.config.alpha, Input[i])
                           + mul(one - arg.config.alpha, ret.out[i - 1])

C8_Witness ==
    /\ ret.op = "ewm_mean"
    /\ Len(Input) >= 3
    /\ ret.out[2] # Input[2]
    /\ ret.out[3] # ret.out[2]
    /\ ret.out[3] # mul(arg.config.alpha, Input[3]) + mul(one - arg.config.alpha, Input[2])

\* C9: diff keeps the length, its element 0 is the default (zero), each later
\* element is data[i] - data[i - 1], and the input Column is left as it was.
C9_DiffPairwise ==
    [][ret'.op = "diff" =>
          /\ arg' = arg
          /\ Len(ret'.out) = Len(Input)
          /\ Input # <<>> => ret'.out[1] = 0
          /\ \A i \in 2..Len(Input) : ret'.out[i] = Input[i] - Input[i - 1]]_vars

C9_Witness ==
    /\ ret.op = "diff"
    /\ Len(Input) >= 3
    /\ Input[1] # 0
    /\ ret.out[2] < 0
    /\ ret.out[3] > 0

(***************************************************************************)
(* Properties of the configurations and of the indicators' results.        *)
(***************************************************************************)
CheckedConstructors ==
    {"Config::new", "Config::new_f64", "Config::new_f64_wilder",
     "Config::new_f32", "Config::new_f32_wilder"}

\* a raw fixed-point alpha inside the open interval (0, 1)
InUnitInterval(alpha) == 0 < alpha /\ alpha < one

\* C11: constructing a Config with max_history < period fails and yields no
\* Config value, for Config::new and for the four convenience constructors;
\* every Config obtained from a constructor or from Default has
\* max_history >= period.
C11_ConfigHistoryCoversPeriod ==
    /\ ret.op \in CheckedConstructors =>
          /\ ret.max_history < ret.period =>
                (ret.out.res = "panic" /\ "config" \notin DOMAIN ret.out)
          /\ ret.max_history >= ret.period =>
                /\ ret.out.res = "Ok"
                /\ ret.out.config.period = ret.period
                /\ ret.out.config.max_history = ret.max_history
    /\ ret.op \in CheckedConstructors \cup {"Config::default"} =>
          (ret.out.res = "Ok" =>
               ret.out.config.max_history >= ret.out.config.period)

C11_Witness ==
    /\ ret.op = "Config::new_f32_wilder"
    /\ ret.period >= 1
    /\ ret.max_history = ret.period - 1
    /\ ret.out.res = "panic"

\* C16 as stated: an alpha outside (0, 1) handed to the constructor of an
\* indicator configuration makes the construction fail, and no indicator
\* result is computed from such an alpha.
C16_AlphaOutsideUnitIntervalRejected ==
    /\ ret.op \in {"RsiConfig::new", "NatrConfig::new"} =>
          (~InUnitInterval(ret.alpha) => ret.out.res # "Ok")
    /\ ret.op \in {"rsi", "natr"} => InUnitInterval(arg.config.alpha)

\* C17: for every non-empty price series and every alpha, the first element
\* of the RSI output is exactly 50, both averages being seeded with 0.
C17_FirstRsiIsNeutral ==
    (ret.op = "rsi" /\ ret.out.res = "Ok" /\ RsiInput.column # <<>>) =>
        /\ ret.out.avg_gain.column[1] = zero
        /\ ret.out.avg_loss.column[1] = zero
        /\ ret.out.rsi.column[1] = fifty

C17_Witness ==
    /\ ret.op = "rsi"
    /\ ret.out.res = "Ok"
    /\ arg.config.alpha > one
    /\ Len(RsiInput.column) >= 2
    /\ RsiInput.column[1] # zero
    /\ ret.out.rsi.column[1] = fifty
    /\ ret.out.rsi.column[2] # fifty

\* C13: natr on high, low and close series of one length n sharing an index
\* returns natr, true_range and atr, each of length n and each carrying the
\* index of the high input, no leading position removed.
C13_NatrKeepsLengthAndIndex ==
    ret.op = "natr" =>
        /\ ret.out.res = "Ok"
        /\ \A out \in {ret.out.natr, ret.out.true_range, ret.out.atr} :
              /\ Len(out.column) = Len(arg.high.column)
              /\ out.index = arg.high.index

C13_Witness ==
    /\ ret.op = "natr"
    /\ Len(arg.high.column) >= 2
    /\ arg.low.index = arg.high.index /\ arg.close.index = arg.high.index
    /\ ret.out.natr.index = arg.high.index
    /\ ret.out.natr.index[2] = 1
    /\ ret.out.natr.column[1] # zero
    /\ ret.out.atr.column[2] # ret.out.true_range.column[2]

\* C18: the final ratio formulas never divide by zero, for any input and
\* any alpha in (0, 1): in rsi avg_gain + avg_loss is zero only where both
\* averages are zero, which gives 50 without dividing; in natr a zero close
\* gives 0 without dividing.
C18_NoDivisionByZero ==
    /\ ret.op = "rsi" =>
          /\ ret.out.res = "Ok"
          /\ \A i \in DOMAIN ret.out.rsi.column :
                ret.out.avg_gain.column[i] + ret.out.avg_loss.column[i] = zero
                    => /\ ret.out.avg_gain.column[i] = zero
                       /\ ret.out.avg_loss.column[i] = zero
                       /\ ret.out.rsi.column[i] = fifty
    /\ ret.op = "natr" =>
          /\ ret.out.res = "Ok"
          /\ \A i \in DOMAIN ret.out.natr.column :
                RsiInput.column[i] = zero => ret.out.natr.column[i] = zero

C18_Witness ==
    /\ ret.op = "rsi"
    /\ InUnitInterval(arg.config.alpha)
    /\ Len(Input) >= 3
    /\ ret.out.res = "Ok"
    /\ ret.out.avg_gain.column[1] + ret.out.avg_loss.column[1] = zero
    /\ ret.out.rsi.column[1] = fifty
    /\ ret.out.avg_gain.column[3] > zero
    /\ ret.out.avg_loss.column[3] > zero
    /\ ret.out.rsi.column[3] \notin {zero, fifty, hundred}

\* C12: for every price Series of length n, rsi returns rsi, avg_gain and
\* avg_loss, each of length n and each carrying exactly the input's index,
\* element for element.
C12_RsiKeepsLengthAndIndex ==
    ret.op = "rsi" =>
        /\ ret.out.res = "Ok"
        /\ \A out \in {ret.out.rsi, ret.out.avg_gain, ret.out.avg_loss} :
              /\ Len(out.column) = Len(RsiInput.column)
              /\ out.index = RsiInput.index

C12_Witness ==
    /\ ret.op = "rsi"
    /\ Len(RsiInput.column) >= 2
    /\ RsiInput.index[1] > RsiInput.index[2]
    /\ ret.out.rsi.index = RsiInput.index
    /\ ret.out.rsi.column[2] # fifty

\* C15: every Series has as many values as index labels, in every state
\* reached from new, from_data or from_vec by push, extend, apply_mut, map,
\* filter, diff and ewm_mean, the receiver and every returned Series alike;
\* from_data with data and index of different lengths fails and yields no
\* Series.
C15_ColumnAndIndexSameLength ==
    /\ arg.kind = "series" => Len(arg.prices.column) = Len(arg.prices.index)
    /\ ret.op \in SeriesReturning => Len(ret.out.column) = Len(ret.out.index)
    /\ ret.op = "Series::from_data" =>
          IF Len(ret.data) # Len(ret.index)
          THEN ret.res = "panic" /\ arg = NoArg
          ELSE ret.res = "Ok" /\ arg.prices = Series(ret.data, ret.index)

C15_Witness ==
    /\ ret.op = "Series::filter"
    /\ Len(arg.prices.column) >= 2
    /\ arg.prices.index[1] # 0
    /\ Len(ret.out.column) = 1
    /\ ret.out.column[1] = arg.prices.column[2]
    /\ ret.out.index = <<arg.prices.index[2]>>
    /\ arg.prices.index[2] # arg.prices.index[1]

\* C21: in rsi, at every position i, gains[i] = max(changes[i], 0) and
\* losses[i] = max(-changes[i], 0): both are >= 0, at most one of them is
\* non-zero, gains[i] - losses[i] = changes[i], and gains[0] = losses[0] = 0.
C21_GainLossSplit ==
    ret.op = "rsi_split" =>
        LET changes == ret.changes.column
            gains == ret.gains.column
            losses == ret.losses.column
        IN
        /\ Len(changes) = Len(Input)
        /\ Len(gains) = Len(Input) /\ Len(losses) = Len(Input)
        /\ \A i \in 1..Len(Input) :
              /\ changes[i] = IF i = 1 THEN 0 ELSE Input[i] - Input[i - 1]
              /\ gains[i] = (IF changes[i] >= 0 THEN changes[i] ELSE 0)
              /\ losses[i] = (IF 0 - changes[i] >= 0 THEN 0 - changes[i] ELSE 0)
              /\ gains[i] >= 0 /\ losses[i] >= 0
              /\ gains[i] = 0 \/ losses[i] = 0
              /\ gains[i] - losses[i] = changes[i]
        /\ Input # <<>> => (gains[1] = 0 /\ losses[1] = 0)

C21_Witness ==
    /\ ret.op = "rsi_split"
    /\ Len(Input) >= 3
    /\ Input[1] # 0
    /\ \E i, j, k \in 2..Len(Input) :
          /\ ret.gains.column[i] > 0
          /\ ret.losses.column[j] > 0
          /\ ret.gains.column[k] = 0 /\ ret.losses.column[k] = 0

(***************************************************************************)
(* The alpha of the convenience constructors.                              *)
(***************************************************************************)
EmaHelpers == {"Config::new_f64", "Config::new_f32", "RsiConfig::from_period"}
WilderHelpers ==
    {"Config::new_f64_wilder", "Config::new_f32_wilder",
     "RsiConfig::from_period_wilder"}

\* the fraction r lies strictly between 0 and 1
InUnitRatio(r) == r.den > 0 /\ 0 < r.num /\ r.num < r.den

\* the fraction r equals 1
IsOneRatio(r) == r.den > 0 /\ r.num = r.den

Survivors(data, f) == {i \in 1..Len(data) : test(f, data[i])}

\* the k-th smallest member of the set of positions S
Nth(S, k) == CHOOSE i \in S : Cardinality({j \in S : j < i}) = k - 1

\* C23: Series::filter(pred) keeps exactly the elements that satisfy pred, in
\* their original order, and the k-th label of the result is the label that
\* was paired with the k-th surviving value; Column::filter returns the
\* surviving values with their original positions, strictly increasing.
C23_FilterLockstep ==
    /\ ret.op = "Series::filter" =>
          LET S == Survivors(arg.prices.column, ret.pred) IN
          /\ Len(ret.out.column) = Cardinality(S)
          /\ Len(ret.out.index) = Cardinality(S)
          /\ \A k \in 1..Cardinality(S) :
                /\ ret.out.column[k] = arg.prices.column[Nth(S, k)]
                /\ ret.out.index[k] = arg.prices.index[Nth(S, k)]
    /\ ret.op = "Column::filter" =>
          LET S == Survivors(arg.prices.column, ret.pred)
              filtered == ret.out[1]
              positions == ret.out[2]
          IN
          /\ Len(filtered) = Cardinality(S)
          /\ Len(positions) = Cardinality(S)
          /\ \A k \in 1..Cardinality(S) :
                /\ positions[k] = Nth(S, k) - 1
                /\ filtered[k] = arg.prices.column[positions[k] + 1]
          /\ \A k \in 1..(Len(positions) - 1) : positions[k] < positions[k + 1]

C23_Witness ==
    /\ ret.op = "Column::filter"
    /\ Len(arg.prices.column) = 2
    /\ ~test(ret.pred, arg.prices.column[1])
    /\ ret.out[1] = <<arg.prices.column[2]>>
    /\ ret.out[2] = <<1>>

(***************************************************************************)
(* The windowed true range and the true range of natr.                     *)
(***************************************************************************)
\* C22: the true range natr computes over three parallel high / low / close
\* Series equals, position for position, CandleSeries::true_range(None) of a
\* CandleSeries whose candles have the same highs, lows and closes.
C22_NatrTrueRangeMatchesCandleSeries ==
    ret.op = "calculate_true_range" =>
        /\ Len(ret.out.column) = len
        /\ ret.out.column = true_range(None)
        /\ \A i \in 1..len :
              ret.out.column[i] = IF i = 1 THEN highs[1] - lows[1]
                                  ELSE ThreeWayMax(i)

C22_Witness ==
    /\ ret.op = "calculate_true_range"
    /\ len >= 2
    /\ highs[2] >= lows[2]
    /\ closes[1] > highs[2]
    /\ closes[2] # closes[1]
    /\ ret.out.column[2] = closes[1] - lows[2]
    /\ ret.out.column = true_range(None)

\* C29: for a CandleSeries of length n and every m, true_range(Some(m))
\* returns exactly min(n, m) values, equal to the last min(n, m) values of
\* true_range(None); when the window starts after candle 0 its first value
\* is computed with the close of the candle just before the window.
C29_WindowIsSuffixOfFullRange ==
    (ret.op = "true_range" /\ ret.max_history # None) =>
        LET m == ret.max_history[1]
            n == len
            kept == IF n <= m THEN n ELSE m
            full == true_range(None)
        IN
        /\ Len(full) = n
        /\ Len(ret.out) = kept
        /\ \A k \in 1..kept : ret.out[k] = full[n - kept + k]
        /\ (kept >= 1 /\ n - kept >= 1) =>
              ret.out[1] = ThreeWayMax(n - kept + 1)

C29_Witness ==
    /\ ret.op = "true_range"
    /\ ret.max_history = Some(1)
    /\ len = 2
    /\ Len(ret.out) = 1
    /\ highs[2] >= lows[2]
    /\ ret.out[1] > highs[2] - lows[2]
    /\ ret.out[1] # highs[1] - lows[1]

====
